---- MODULE Spec2Model ----
(***************************************************************************)
(* GhostMessaging: the ticket codec (src/src/stego.rs, Ticket in           *)
(* src/src/main.rs), the join/host entry of main(), the session loop       *)
(* run_tui() with its heartbeat task, and the chat pane drawn by ui().     *)
(*                                                                         *)
(* Specifications: SpecStego, SpecTicket (the codec on bounded inputs),    *)
(* SpecMain (main up to run_tui), Spec (one session, events as inputs),    *)
(* SpecUi (ui on bounded transcripts), SpecPair (two participants and a    *)
(* lossy transport), SpecKeys (the loop between keyboard and receiver).    *)
(*                                                                         *)
(* Strings are sequences of one-character strings, so that find, slicing   *)
(* and trim are computed position by position as the Rust code does.       *)
(* All characters of the model are ASCII: a byte index is a char index.    *)
(***************************************************************************)
EXTENDS Naturals, Integers, Sequences, FiniteSets, TLC

VARIABLES
    stego,          \* driver of hide/reveal: [pc, cover, arg, text, out]
    codec,          \* driver of Ticket Display/FromStr: [pc, ticket, str, out]
    proc,           \* main(): [pc, cmd, name, cover, arg, decoded, ticket, printed]
    status,         \* per node: NotStarted / Running / Terminated / Failed / Exited
    messages,       \* per node: AppState.messages
    input,          \* per node: AppState.input
    peer_names,     \* per node: AppState.peer_names (a function on a subset of NodeId)
    my_name,        \* per node: AppState.my_name
    bcast,          \* the broadcast calls made by the last step: Seq of [from, payload, ok]
    sends,          \* history: per node, the texts sent locally, in order
    arrivals,       \* history: per node, the remote Chat deliveries processed, in order
    announced,      \* history: per node, the last Presence name processed per peer
    last,           \* history: what the last step of the session did
    frame,          \* driver of ui(): [pc, messages, height, lines]
    wire,           \* transport between two participants: [flight, dropped]
    keys,           \* per node: the key events pending in the terminal, in order
    src             \* what the inbound network source does: off / idle / busy / ended

vars == <<stego, codec, proc, status, messages, input, peer_names, my_name,
          bcast, sends, arrivals, announced, last, frame, wire, keys, src>>

sessionVars == <<status, messages, input, peer_names, my_name, bcast,
                 sends, arrivals, announced, last>>

\* the session's surroundings: the frame drawn, the transport, the terminal's
\* pending keys, the network source
envVars == <<frame, wire, keys, src>>

-----------------------------------------------------------------------------
(* Bounds of the model *)

\* a stego input text is made of at most this many pieces
MaxPieces == 3
\* longest node list of a Ticket of the codec driver
MaxNodes == 2
\* transcript entries a session may hold before the model stops appending
MaxMsgs == 2
\* characters the input line may hold before the model stops typing
MaxInput == 2
\* longest transcript the ui driver draws
MaxShown == 3
\* tallest chat pane the ui driver draws into, in rows
MaxHeight == 3
\* key events the terminal holds for the loop at most
MaxKeys == 2

-----------------------------------------------------------------------------
(* Text helpers: Rust str operations on ASCII text *)

\* Option::None of str::find
NotFound == -1

\* s[i..] of a 0-based index i <= len: the suffix
SuffixFrom(s, i) == SubSeq(s, i + 1, Len(s))

\* does pat occur in s at 0-based index i
OccursAt(s, pat, i) ==
    /\ i + Len(pat) <= Len(s)
    /\ SubSeq(s, i + 1, i + Len(pat)) = pat

\* str::find: the 0-based index of the first occurrence of pat, or NotFound
Find(s, pat) ==
    LET hits == {i \in 0..Len(s) : OccursAt(s, pat, i)}
    IN  IF hits = {} THEN NotFound
        ELSE CHOOSE i \in hits : \A j \in hits : i <= j

\* char::is_whitespace, on the characters of the model
WhiteSpace == {" ", "\t", "\n"}

RECURSIVE TrimStart(_)
TrimStart(s) ==
    IF s # <<>> /\ Head(s) \in WhiteSpace THEN TrimStart(Tail(s)) ELSE s

RECURSIVE TrimEnd(_)
TrimEnd(s) ==
    IF s # <<>> /\ s[Len(s)] \in WhiteSpace
    THEN TrimEnd(SubSeq(s, 1, Len(s) - 1)) ELSE s

\* str::trim
Trim(s) == TrimEnd(TrimStart(s))

\* &s[a..b]: panics unless a <= b <= len
Slice(s, a, b) ==
    IF a <= b /\ b <= Len(s)
    THEN [tag |-> "Ok", val |-> SubSeq(s, a + 1, b)]
    ELSE [tag |-> "Panic", val |-> <<>>]

RECURSIVE Concat(_)
Concat(ss) == IF ss = <<>> THEN <<>> ELSE Head(ss) \o Concat(Tail(ss))

-----------------------------------------------------------------------------
(* stego.rs *)

\* the literal "[Ghost:"
GhostPrefix == <<"[", "G", "h", "o", "s", "t", ":">>

\* the literal 7 of `start + 7`
PrefixLen == 7

\* hide(_cover, secret) = format!("[Ghost:{}]", secret)
hide(cover, secret) == GhostPrefix \o secret \o <<"]">>

\* reveal with the ']' searched in the whole text, not in text[start..]
revealFindInWhole(text) ==
    LET start == Find(text, GhostPrefix)
        end   == IF start = NotFound THEN NotFound
                 ELSE Find(text, <<"]">>)
    IN  IF start # NotFound /\ end # NotFound
        THEN Slice(text, start + PrefixLen, start + end)
        ELSE [tag |-> "Ok", val |-> Trim(text)]

\* reveal with the prefix length off by one
revealShortPrefix(text) ==
    LET start == Find(text, GhostPrefix)
        end   == IF start = NotFound THEN NotFound
                 ELSE Find(SuffixFrom(text, start), <<"]">>)
    IN  IF start # NotFound /\ end # NotFound
        THEN Slice(text, start + PrefixLen - 1, start + end)
        ELSE [tag |-> "Ok", val |-> Trim(text)]

\* reveal(text): Ok(secret) between the first "[Ghost:" and the next ']',
\* else Ok(text.trim()); the slice is the one place that can panic
reveal(text) ==
    LET start == Find(text, GhostPrefix)
        end   == IF start = NotFound THEN NotFound
                 ELSE Find(SuffixFrom(text, start), <<"]">>)
    IN  IF start # NotFound /\ end # NotFound
        THEN Slice(text, start + PrefixLen, start + end)
        ELSE [tag |-> "Ok", val |-> Trim(text)]

-----------------------------------------------------------------------------
(* Ticket codec: bincode (fixed-width integers, little endian, trailing     *)
(* bytes allowed) under base64 STANDARD_NO_PAD.  Bytes are 0..255.          *)

\* bytes of a TopicId ([u8; 32])
TopicLen == 32
\* bytes of a NodeId (an ed25519 public key)
KeyLen == 32
\* bytes of a bincode length prefix (u64)
LenWidth == 8

Rep(b, n) == [i \in 1..n |-> b]

\* a length no input of the model reaches: a u64 whose high bytes are set
HugeLen == 1000000

\* u64 little endian, for the lengths of the model (< 65536)
U64LE(n) == <<n % 256, (n \div 256) % 256>> \o Rep(0, LenWidth - 2)

\* u32 little endian (an enum variant index)
U32LE(n) == <<n % 256, (n \div 256) % 256, 0, 0>>

\* u16 little endian (a port)
U16LE(n) == <<n % 256, (n \div 256) % 256>>

Fail == [ok |-> FALSE, val |-> <<>>, rest |-> <<>>]
Got(v, r) == [ok |-> TRUE, val |-> v, rest |-> r]

\* read exactly n bytes
ReadBytes(bs, n) ==
    IF n <= Len(bs) THEN Got(SubSeq(bs, 1, n), SubSeq(bs, n + 1, Len(bs)))
    ELSE Fail

ReadU64(bs) ==
    LET r == ReadBytes(bs, LenWidth)
    IN  IF ~r.ok THEN Fail
        ELSE IF \E i \in 3..LenWidth : r.val[i] # 0 THEN Got(HugeLen, r.rest)
        ELSE Got(r.val[1] + 256 * r.val[2], r.rest)

ReadU32(bs) ==
    LET r == ReadBytes(bs, 4)
    IN  IF ~r.ok THEN Fail
        ELSE IF r.val[3] # 0 \/ r.val[4] # 0 THEN Got(HugeLen, r.rest)
        ELSE Got(r.val[1] + 256 * r.val[2], r.rest)

\* lexicographic order of byte sequences of equal length
RECURSIVE LexLess(_, _)
LexLess(a, b) ==
    IF a = <<>> \/ b = <<>> THEN FALSE
    ELSE IF Head(a) # Head(b) THEN Head(a) < Head(b)
    ELSE LexLess(Tail(a), Tail(b))

\* Ord of SocketAddr (V4): by ip, then by port
AddrLess(a, b) == LexLess(a.ip \o <<a.port>>, b.ip \o <<b.port>>)

\* the iteration order of a BTreeSet<SocketAddr>
RECURSIVE SortedAddrs(_)
SortedAddrs(S) ==
    IF S = {} THEN <<>>
    ELSE LET m == CHOOSE a \in S : \A b \in S \ {a} : AddrLess(a, b)
         IN  <<m>> \o SortedAddrs(S \ {m})

\* SocketAddr::V4: variant 0, four ip bytes, the port
SerAddr(a) == U32LE(0) \o a.ip \o U16LE(a.port)

RECURSIVE SerAddrs(_)
SerAddrs(as) == IF as = <<>> THEN <<>> ELSE SerAddr(Head(as)) \o SerAddrs(Tail(as))

NoRelay == <<>>

\* NodeAddr { node_id, relay_url: Option<RelayUrl>, direct_addresses: BTreeSet }
SerNode(n) ==
    n.node_id
    \o (IF n.relay_url = NoRelay THEN <<0>>
        ELSE <<1>> \o U64LE(Len(n.relay_url)) \o n.relay_url)
    \o U64LE(Cardinality(n.direct_addresses))
    \o SerAddrs(SortedAddrs(n.direct_addresses))

RECURSIVE SerNodes(_)
SerNodes(ns) == IF ns = <<>> THEN <<>> ELSE SerNode(Head(ns)) \o SerNodes(Tail(ns))

\* bincode::serialize(&Ticket): topic, then the node list with its length
BincodeSerialize(t) == t.topic \o U64LE(Len(t.nodes)) \o SerNodes(t.nodes)

\* a key the ed25519 point check rejects (the model's one bad encoding)
BadKey == Rep(255, KeyLen)

\* Url::parse on the relay string: the model accepts non-empty ASCII
ValidUrl(bs) == bs # <<>> /\ \A i \in 1..Len(bs) : bs[i] < 128

ReadAddr(bs) ==
    LET v == ReadU32(bs)
    IN  IF ~v.ok \/ v.val # 0 THEN Fail        \* V6 is not in the model: unknown variant
        ELSE LET ip == ReadBytes(v.rest, 4)
             IN  IF ~ip.ok THEN Fail
                 ELSE LET pt == ReadBytes(ip.rest, 2)
                      IN  IF ~pt.ok THEN Fail
                          ELSE Got([ip |-> ip.val, port |-> pt.val[1] + 256 * pt.val[2]],
                                   pt.rest)

RECURSIVE ReadAddrs(_, _, _)
ReadAddrs(bs, n, acc) ==
    IF n = 0 THEN Got(acc, bs)
    ELSE LET a == ReadAddr(bs)
         IN  IF ~a.ok THEN Fail ELSE ReadAddrs(a.rest, n - 1, acc \cup {a.val})

ReadRelay(bs) ==
    LET tag == ReadBytes(bs, 1)
    IN  IF ~tag.ok THEN Fail
        ELSE IF tag.val[1] = 0 THEN Got(NoRelay, tag.rest)
        ELSE IF tag.val[1] # 1 THEN Fail
        ELSE LET n == ReadU64(tag.rest)
             IN  IF ~n.ok THEN Fail
                 ELSE LET u == ReadBytes(n.rest, n.val)
                      IN  IF ~u.ok \/ ~ValidUrl(u.val) THEN Fail ELSE u

ReadNode(bs) ==
    LET id == ReadBytes(bs, KeyLen)
    IN  IF ~id.ok \/ id.val = BadKey THEN Fail
        ELSE LET rl == ReadRelay(id.rest)
             IN  IF ~rl.ok THEN Fail
                 ELSE LET n == ReadU64(rl.rest)
                      IN  IF ~n.ok THEN Fail
                          ELSE LET as == ReadAddrs(n.rest, n.val, {})
                               IN  IF ~as.ok THEN Fail
                                   ELSE Got([node_id |-> id.val, relay_url |-> rl.val,
                                             direct_addresses |-> as.val], as.rest)

RECURSIVE ReadNodes(_, _, _)
ReadNodes(bs, n, acc) ==
    IF n = 0 THEN Got(acc, bs)
    ELSE LET nd == ReadNode(bs)
         IN  IF ~nd.ok THEN Fail ELSE ReadNodes(nd.rest, n - 1, Append(acc, nd.val))

\* bincode::deserialize::<Ticket>: bytes left over after the value are ignored
BincodeDeserialize(bs) ==
    LET tp == ReadBytes(bs, TopicLen)
    IN  IF ~tp.ok THEN Fail
        ELSE LET n == ReadU64(tp.rest)
             IN  IF ~n.ok THEN Fail
                 ELSE LET ns == ReadNodes(n.rest, n.val, <<>>)
                      IN  IF ~ns.ok THEN Fail
                          ELSE Got([topic |-> tp.val, nodes |-> ns.val], <<>>)

\* the standard base64 alphabet
B64Alphabet ==
    << "A","B","C","D","E","F","G","H","I","J","K","L","M","N","O","P",
       "Q","R","S","T","U","V","W","X","Y","Z","a","b","c","d","e","f",
       "g","h","i","j","k","l","m","n","o","p","q","r","s","t","u","v",
       "w","x","y","z","0","1","2","3","4","5","6","7","8","9","+","/" >>

Pow2(k) == CASE k = 0 -> 1 [] k = 2 -> 4 [] k = 4 -> 16 [] k = 6 -> 64
             [] k = 8 -> 256 [] k = 10 -> 1024 [] OTHER -> 0

ByteAt(bs, i) == IF i <= Len(bs) THEN bs[i] ELSE 0

\* the padded engine (STANDARD): '=' up to a multiple of four characters
B64EncodePadded(bs) ==
    LET n == (8 * Len(bs) + 5) \div 6
        body == [g \in 1..n |->
                    LET bit == 6 * (g - 1)
                        i   == bit \div 8 + 1
                        off == bit % 8
                        two == ByteAt(bs, i) * 256 + ByteAt(bs, i + 1)
                    IN  B64Alphabet[((two \div Pow2(10 - off)) % 64) + 1]]
    IN  body \o Rep("=", (4 - (n % 4)) % 4)

\* STANDARD_NO_PAD.encode: six bits per character, the last one zero-filled
B64Encode(bs) ==
    LET n == (8 * Len(bs) + 5) \div 6
    IN  [g \in 1..n |->
            LET bit == 6 * (g - 1)
                i   == bit \div 8 + 1
                off == bit % 8
                two == ByteAt(bs, i) * 256 + ByteAt(bs, i + 1)
            IN  B64Alphabet[((two \div Pow2(10 - off)) % 64) + 1]]

B64Index(c) ==
    IF \E k \in 1..64 : B64Alphabet[k] = c
    THEN (CHOOSE k \in 1..64 : B64Alphabet[k] = c) - 1
    ELSE NotFound

\* STANDARD_NO_PAD.decode: rejects a character outside the alphabet ('=' too),
\* a length of 1 mod 4, and non-zero bits after the last whole byte
B64Decode(cs) ==
    LET m    == Len(cs)
        six  == [k \in 1..m |-> B64Index(cs[k])]
        n    == (6 * m) \div 8
        used == 8 * n
        SixAt(k) == IF k <= m THEN six[k] ELSE 0
        tailBits == IF m = 0 THEN 0 ELSE six[m] % Pow2(6 * m - used)
    IN  IF \E k \in 1..m : six[k] = NotFound THEN Fail
        ELSE IF m % 4 = 1 THEN Fail
        ELSE IF tailBits # 0 THEN Fail
        ELSE Got([j \in 1..n |->
                    LET bit == 8 * (j - 1)
                        k   == bit \div 6 + 1
                        off == bit % 6
                        two == SixAt(k) * 64 + SixAt(k + 1)
                    IN  (two \div Pow2(4 - off)) % 256], <<>>)

\* impl fmt::Display for Ticket (to_string)
TicketToString(t) == B64Encode(BincodeSerialize(t))

\* impl FromStr for Ticket: trim, base64-decode, bincode-deserialize;
\* ok = FALSE is the Err(anyhow::Error) result
TicketFromStr(s) ==
    LET clean == Trim(s)
        bin   == B64Decode(clean)
    IN  IF ~bin.ok THEN Fail ELSE BincodeDeserialize(bin.val)

-----------------------------------------------------------------------------
(* Values shared by the drivers and the session *)

\* NodeId values: "A" runs this program; "B" and "C" are remote peers
NodeId == {"A", "B", "C"}
Local == {"A"}
RemoteIds == NodeId \ Local

Ghost == <<"G", "h", "o", "s", "t">>          \* clap default_value of --name
Bob == <<"b", "o", "b">>
Eve == <<"e", "v", "e">>
Unknown == <<"U", "n", "k", "n", "o", "w", "n">>
HelloWorld == <<"H", "e", "l", "l", "o", " ", "W", "o", "r", "l", "d">>
NotATicket == <<"n", "o", "t", " ", "a", " ", "t", "i", "c", "k", "e", "t">>

NoOut == [tag |-> "None", val |-> <<>>]

StegoOff == [pc |-> "off", cover |-> <<>>, arg |-> <<>>, text |-> <<>>, out |-> NoOut]
CodecOff == [pc |-> "off", ticket |-> [topic |-> <<>>, nodes |-> <<>>],
             str |-> <<>>, out |-> Fail]
NoTicket == [topic |-> <<>>, nodes |-> <<>>]
ProcOff == [pc |-> "off", cmd |-> "None", name |-> <<>>, cover |-> <<>>, arg |-> <<>>,
            decoded |-> <<>>, ticket |-> NoTicket, printed |-> <<>>, err |-> "none"]

FrameOff == [pc |-> "off", messages |-> <<>>, height |-> 0, lines |-> <<>>]
WireOff == [flight |-> {}, dropped |-> {}]

EnvOff ==
    /\ frame = FrameOff
    /\ wire = WireOff
    /\ keys = [p \in {"A", "B", "C"} |-> <<>>]
    /\ src = "off"

SessionOff ==
    /\ status = [p \in NodeId |-> "NotStarted"]
    /\ messages = [p \in NodeId |-> <<>>]
    /\ input = [p \in NodeId |-> <<>>]
    /\ peer_names = [p \in NodeId |-> <<>>]
    /\ my_name = [p \in NodeId |-> <<>>]
    /\ bcast = <<>>
    /\ sends = [p \in NodeId |-> <<>>]
    /\ arrivals = [p \in NodeId |-> <<>>]
    /\ announced = [p \in NodeId |-> <<>>]
    /\ last = "init"
    /\ EnvOff

-----------------------------------------------------------------------------
(* Driver of hide and reveal on bounded texts *)

Pieces == {GhostPrefix, <<"]">>, <<" ">>, <<"a">>, <<"[">>}

StegoTexts == {Concat(ps) : ps \in UNION {[1..k -> Pieces] : k \in 0..MaxPieces}}

Covers == {<<>>, HelloWorld}

InitStego ==
    /\ stego \in {[pc |-> "input", cover |-> c, arg |-> a, text |-> <<>>, out |-> NoOut] :
                    c \in Covers, a \in StegoTexts}
    /\ codec = CodecOff
    /\ proc = ProcOff
    /\ SessionOff

\* the host wraps arg: text = hide(cover, arg)
StegoHide ==
    /\ stego.pc = "input"
    /\ stego' = [stego EXCEPT !.pc = "hidden", !.text = hide(stego.cover, stego.arg)]
    /\ UNCHANGED <<codec, proc, sessionVars, envVars>>

\* the user pastes arg as it is
StegoPaste ==
    /\ stego.pc = "input"
    /\ stego' = [stego EXCEPT !.pc = "pasted", !.text = stego.arg]
    /\ UNCHANGED <<codec, proc, sessionVars, envVars>>

\* the joiner unwraps text
StegoReveal ==
    /\ stego.pc \in {"hidden", "pasted"}
    /\ stego' = [stego EXCEPT !.pc = IF stego.pc = "hidden" THEN "revealed" ELSE "revealedRaw",
                              !.out = reveal(stego.text)]
    /\ UNCHANGED <<codec, proc, sessionVars, envVars>>

NextStego == StegoHide \/ StegoPaste \/ StegoReveal

SpecStego == InitStego /\ [][NextStego]_vars

-----------------------------------------------------------------------------
(* Driver of Ticket to_string / from_str on bounded tickets *)

Topics == {Rep(0, TopicLen), Rep(255, TopicLen), [i \in 1..TopicLen |-> (37 * i) % 256]}

Loopback == <<127, 0, 0, 1>>

NodeA == [node_id |-> [i \in 1..KeyLen |-> i], relay_url |-> NoRelay,
          direct_addresses |-> {}]
NodeB == [node_id |-> Rep(1, KeyLen), relay_url |-> <<104, 58, 47, 47, 114>>,
          direct_addresses |-> {[ip |-> <<192, 168, 0, 2>>, port |-> 4433],
                                [ip |-> Loopback, port |-> 4433]}]
NodeC == [node_id |-> [i \in 1..KeyLen |-> 255 - i], relay_url |-> NoRelay,
          direct_addresses |-> {[ip |-> <<10, 0, 0, 1>>, port |-> 65535]}]

NodeAddrs == {NodeA, NodeB, NodeC}

Tickets == {[topic |-> tp, nodes |-> ns] :
              tp \in Topics, ns \in UNION {[1..k -> NodeAddrs] : k \in 0..MaxNodes}}

InitTicket ==
    /\ codec \in {[pc |-> "input", ticket |-> t, str |-> <<>>, out |-> Fail] : t \in Tickets}
    /\ stego = StegoOff
    /\ proc = ProcOff
    /\ SessionOff

TicketEncode ==
    /\ codec.pc = "input"
    /\ codec' = [codec EXCEPT !.pc = "encoded", !.str = TicketToString(codec.ticket)]
    /\ UNCHANGED <<stego, proc, sessionVars, envVars>>

TicketDecode ==
    /\ codec.pc = "encoded"
    /\ codec' = [codec EXCEPT !.pc = "decoded", !.out = TicketFromStr(codec.str)]
    /\ UNCHANGED <<stego, proc, sessionVars, envVars>>

NextTicket == TicketEncode \/ TicketDecode

SpecTicket == InitTicket /\ [][NextTicket]_vars

-----------------------------------------------------------------------------
(* Wire messages: serde_json of enum Message, as a sequence of JSON tokens *)

P(c) == [k |-> "p", v |-> <<c>>]          \* punctuation
S(str) == [k |-> "s", v |-> str]          \* a JSON string
Blank == [k |-> "w", v |-> <<" ">>]       \* insignificant whitespace
Num == [k |-> "n", v |-> <<"1">>]         \* a JSON number

AboutMeTag == <<"A", "b", "o", "u", "t", "M", "e">>
ChatTag == <<"C", "h", "a", "t">>
NameKey == <<"n", "a", "m", "e">>
TextKey == <<"t", "e", "x", "t">>
LeaveTag == <<"L", "e", "a", "v", "e">>

AboutMe(name) == [variant |-> "AboutMe", val |-> name]
Chat(text) == [variant |-> "Chat", val |-> text]

\* serde_json::to_vec(&msg): {"AboutMe":{"name":"..."}} or {"Chat":{"text":"..."}}
to_vec(msg) ==
    LET tag == IF msg.variant = "AboutMe" THEN AboutMeTag ELSE ChatTag
        key == IF msg.variant = "AboutMe" THEN NameKey ELSE TextKey
    IN  <<P("{"), S(tag), P(":"), P("{"), S(key), P(":"), S(msg.val), P("}"), P("}")>>

Significant(t) == t.k # "w"

NoMsg == [ok |-> FALSE, msg |-> [variant |-> "None", val |-> <<>>]]

\* the externally tagged enum on significant tokens t, its one field given as
\* a map or as a one-element array; anything else is Err
ParseMessage(t) ==
    LET variantOf(tag) == IF tag = AboutMeTag THEN "AboutMe" ELSE "Chat"
        keyOf(tag) == IF tag = AboutMeTag THEN NameKey ELSE TextKey
    IN  IF /\ Len(t) = 9
           /\ t[1] = P("{") /\ t[2].k = "s" /\ t[2].v \in {AboutMeTag, ChatTag}
           /\ t[3] = P(":") /\ t[4] = P("{")
           /\ t[5] = S(keyOf(t[2].v)) /\ t[6] = P(":") /\ t[7].k = "s"
           /\ t[8] = P("}") /\ t[9] = P("}")
        THEN [ok |-> TRUE, msg |-> [variant |-> variantOf(t[2].v), val |-> t[7].v]]
        ELSE IF /\ Len(t) = 7
                /\ t[1] = P("{") /\ t[2].k = "s" /\ t[2].v \in {AboutMeTag, ChatTag}
                /\ t[3] = P(":") /\ t[4] = P("[") /\ t[5].k = "s"
                /\ t[6] = P("]") /\ t[7] = P("}")
        THEN [ok |-> TRUE, msg |-> [variant |-> variantOf(t[2].v), val |-> t[5].v]]
        ELSE NoMsg

\* from_slice that also takes a bare JSON string for a Chat (an untagged enum)
from_sliceUntagged(bytes) ==
    LET t == SelectSeq(bytes, Significant)
    IN  IF Len(t) = 1 /\ t[1].k = "s"
        THEN [ok |-> TRUE, msg |-> Chat(t[1].v)]
        ELSE ParseMessage(t)

\* serde_json::from_slice::<Message>(bytes)
from_slice(bytes) == ParseMessage(SelectSeq(bytes, Significant))

-----------------------------------------------------------------------------
(* Inputs of the session loop *)

\* Local::now().format("%H:%M")
Times == {<<"1", "2", ":", "0", "0">>}

\* characters the keyboard of the model types
KeyChars == {"h"}

Hi == <<"h", "i">>

\* names remote peers announce
PeerNames == {Bob, Eve}

\* the two spellings of Chat{"hi"}: the map to_vec writes, and the array form
ChatPayloads ==
    {to_vec(Chat(Hi)),
     <<P("{"), S(ChatTag), P(":"), Blank, P("["), S(Hi), P("]"), P("}")>>}

\* payloads that deserialize
GoodPayloads == {to_vec(AboutMe(n)) : n \in PeerNames} \cup ChatPayloads

\* payloads that do not: empty, cut short, unknown variant, wrong field,
\* a value that is no string, a bare string, bincode bytes of a Ticket
BadPayloads ==
    { <<>>,
      SubSeq(to_vec(Chat(Hi)), 1, 5),
      <<P("{"), S(LeaveTag), P(":"), P("{"), S(NameKey), P(":"), S(Bob), P("}"), P("}")>>,
      <<P("{"), S(AboutMeTag), P(":"), P("{"), S(TextKey), P(":"), S(Bob), P("}"), P("}")>>,
      <<P("{"), S(ChatTag), P(":"), P("{"), S(TextKey), P(":"), Num, P("}"), P("}")>>,
      <<S(Hi)>> }

Received(from, content) == [kind |-> "Received", from |-> from, content |-> content]
Other(kind) == [kind |-> kind, from |-> "A", content |-> <<>>]

\* what receiver.next() may yield: Some(Ok(Event::Gossip(Received))), another
\* gossip event, Event::Lagged, Some(Err(_)), None
NonMessageKinds == {"NeighborUp", "Lagged", "StreamErr", "EndOfStream"}

\* deliveries from "B": every payload of the model; from "C": one name, one
\* chat, one malformed payload
NetEvents ==
    {Received("B", c) : c \in GoodPayloads \cup BadPayloads}
    \cup {Received("C", to_vec(AboutMe(Eve))), Received("C", to_vec(Chat(Hi))),
          Received("C", SubSeq(to_vec(Chat(Hi)), 1, 5))}
    \cup {Other(k) : k \in NonMessageKinds}

Key(kind, code, ch) == [type |-> "Key", kind |-> kind, code |-> code, ch |-> ch]

\* what event::read() may return
TermEvents ==
    {Key("Press", c, "") : c \in {"Enter", "Backspace", "Esc", "Tab"}}
    \cup {Key("Press", "Char", c) : c \in KeyChars}
    \cup {Key("Release", "Esc", "")}
    \cup {[type |-> "Resize", kind |-> "", code |-> "", ch |-> ""]}

-----------------------------------------------------------------------------
(* run_tui: AppState and the loop *)

ChatMessage(sender, text, time, is_me) ==
    [sender |-> sender, text |-> text, time |-> time, is_me |-> is_me]

\* state.peer_names.insert(from_id, name), misread as insert-if-absent
InsertIfAbsent(pn, from, name) ==
    [x \in DOMAIN pn \cup {from} |-> IF x \in DOMAIN pn THEN pn[x] ELSE name]

\* state.peer_names.insert(from_id, name), misread as a toggle: a second
\* announcement of the same name removes the entry
InsertToggle(pn, from, name) ==
    IF from \in DOMAIN pn /\ pn[from] = name
    THEN [x \in DOMAIN pn \ {from} |-> pn[x]]
    ELSE [x \in DOMAIN pn \cup {from} |-> IF x = from THEN name ELSE pn[x]]

\* state.peer_names.insert(from_id, name.clone())
Insert(pn, from, name) ==
    [x \in DOMAIN pn \cup {from} |-> IF x = from THEN name ELSE pn[x]]

\* the sender of a remote Chat with the map never consulted
SenderNameAlwaysUnknown(pn, from) == Unknown

\* state.peer_names.get(&from_id).map(..).unwrap_or("Unknown")
SenderName(pn, from) == IF from \in DOMAIN pn THEN pn[from] ELSE Unknown

\* push, misread as insert(0, ..)
PushFront(msgs, m) == <<m>> \o msgs

\* push into a transcript kept to its newest entry: the oldest is dropped
PushCapped(msgs, m) == IF msgs = <<>> THEN <<m>> ELSE Tail(msgs) \o <<m>>

\* state.messages.push(m)
Push(msgs, m) == Append(msgs, m)

Broadcast(p, payload, ok) == <<[from |-> p, payload |-> payload, ok |-> ok]>>

Running(p) == status[p] = "Running"

\* AppState as run_tui builds it, and the session Running
StartSession(p, name) ==
    /\ status' = [status EXCEPT ![p] = "Running"]
    /\ messages' = [messages EXCEPT ![p] = <<>>]
    /\ input' = [input EXCEPT ![p] = <<>>]
    /\ peer_names' = [peer_names EXCEPT ![p] = <<>>]
    /\ my_name' = [my_name EXCEPT ![p] = name]
    /\ bcast' = <<>>
    /\ last' = "start"
    /\ UNCHANGED <<sends, arrivals, announced>>

\* the loop is left (break, or `?` on an Err): run_tui returns and its local
\* AppState is dropped; the histories of the session end with it
LeaveLoop(p, st, why) ==
    /\ status' = [status EXCEPT ![p] = st]
    /\ messages' = [messages EXCEPT ![p] = <<>>]
    /\ input' = [input EXCEPT ![p] = <<>>]
    /\ peer_names' = [peer_names EXCEPT ![p] = <<>>]
    /\ sends' = [sends EXCEPT ![p] = <<>>]
    /\ arrivals' = [arrivals EXCEPT ![p] = <<>>]
    /\ announced' = [announced EXCEPT ![p] = <<>>]
    /\ bcast' = <<>>
    /\ last' = why
    /\ UNCHANGED my_name

\* terminal.draw(..)? returns Err: run_tui returns it
DrawFail(p) ==
    /\ Running(p)
    /\ LeaveLoop(p, "Failed", "draw_err")
    /\ UNCHANGED <<stego, codec, proc, envVars>>

\* the network arm with `None => break` and `Some(Err(_)) => break` added
NetStatusBreakOnEnd(ev) ==
    IF ev.kind \in {"EndOfStream", "StreamErr"} THEN "Terminated" ELSE "Running"

\* the session's state after the network arm: no path of it leaves the loop
NetStatus(ev) == "Running"

\* what the network arm did, for the history variable `last`
NetClass(p, ev, r) ==
    IF r.ok /\ r.msg.variant = "AboutMe"
    THEN IF ev.from \in DOMAIN peer_names[p] /\ peer_names[p][ev.from] = r.msg.val
         THEN "presence_same" ELSE "presence"
    ELSE IF r.ok THEN "chat"
    ELSE IF ev.kind = "Received" THEN "malformed"
    ELSE IF ev.kind = "EndOfStream" THEN "end_of_stream"
    ELSE "net_other"

\* the `event = receiver.next()` arm of select!, with event ev
NetArm(p, ev) ==
    LET r == IF ev.kind = "Received" THEN from_slice(ev.content) ELSE NoMsg
    IN  /\ Running(p)
        /\ status' = [status EXCEPT ![p] = NetStatus(ev)]
        /\ last' = NetClass(p, ev, r)
        /\ bcast' = <<>>
        /\ IF r.ok /\ r.msg.variant = "AboutMe"
           THEN /\ peer_names' = [peer_names EXCEPT ![p] = Insert(@, ev.from, r.msg.val)]
                /\ announced' = [announced EXCEPT ![p] =
                                   [x \in DOMAIN @ \cup {ev.from} |->
                                       IF x = ev.from THEN r.msg.val ELSE @[x]]]
                /\ UNCHANGED <<messages, arrivals>>
           ELSE IF r.ok
           THEN /\ Len(messages[p]) < MaxMsgs
                /\ \E tm \in Times :
                     messages' = [messages EXCEPT ![p] =
                        Push(@, ChatMessage(SenderName(peer_names[p], ev.from),
                                            r.msg.val, tm, FALSE))]
                /\ arrivals' = [arrivals EXCEPT ![p] =
                                  Append(@, [from |-> ev.from, text |-> r.msg.val,
                                             name |-> IF ev.from \in DOMAIN announced[p]
                                                      THEN announced[p][ev.from]
                                                      ELSE <<>>])]
                /\ UNCHANGED <<peer_names, announced>>
           ELSE UNCHANGED <<messages, arrivals, peer_names, announced>>
        /\ UNCHANGED <<input, my_name, sends>>

\* one loop iteration taking the network arm with event ev
NetStep(p, ev) == NetArm(p, ev) /\ UNCHANGED <<stego, codec, proc, envVars>>

\* KeyCode::Enter with the broadcast's result checked (`.await?` in place of
\* `let _ =`): on a failure the drained input is lost, nothing is pushed and
\* the loop is left
KeyEnterBroadcastChecked(p) ==
    IF input[p] # <<>>
    THEN /\ Len(messages[p]) < MaxMsgs
         /\ \E ok \in BOOLEAN, tm \in Times :
              /\ bcast' = Broadcast(p, to_vec(Chat(input[p])), ok)
              /\ messages' = [messages EXCEPT ![p] =
                    IF ok THEN Push(@, ChatMessage(my_name[p], input[p], tm, TRUE))
                    ELSE @]
              /\ status' = [status EXCEPT ![p] = IF ok THEN "Running" ELSE "Failed"]
         /\ input' = [input EXCEPT ![p] = <<>>]
         /\ sends' = [sends EXCEPT ![p] = Append(@, input[p])]
         /\ last' = "enter_send"
         /\ UNCHANGED <<peer_names, my_name, arrivals, announced>>
    ELSE /\ bcast' = <<>>
         /\ last' = "enter_empty"
         /\ UNCHANGED <<status, messages, input, sends, peer_names, my_name,
                        arrivals, announced>>

\* KeyCode::Enter with the text taken by state.input.clone() in place of
\* drain(..): the input is sent and pushed but stays in the input box
KeyEnterNoDrain(p) ==
    IF input[p] # <<>>
    THEN /\ Len(messages[p]) < MaxMsgs
         /\ \E ok \in BOOLEAN, tm \in Times :
              /\ bcast' = Broadcast(p, to_vec(Chat(input[p])), ok)
              /\ messages' = [messages EXCEPT ![p] =
                    Push(@, ChatMessage(my_name[p], input[p], tm, TRUE))]
         /\ sends' = [sends EXCEPT ![p] = Append(@, input[p])]
         /\ last' = "enter_send"
         /\ UNCHANGED <<status, input, peer_names, my_name, arrivals, announced>>
    ELSE /\ bcast' = <<>>
         /\ last' = "enter_empty"
         /\ UNCHANGED <<status, messages, input, sends, peer_names, my_name,
                        arrivals, announced>>

\* KeyCode::Enter
KeyEnter(p) ==
    IF input[p] # <<>>
    THEN /\ Len(messages[p]) < MaxMsgs
         /\ \E ok \in BOOLEAN, tm \in Times :
              /\ bcast' = Broadcast(p, to_vec(Chat(input[p])), ok)
              /\ messages' = [messages EXCEPT ![p] =
                    Push(@, ChatMessage(my_name[p], input[p], tm, TRUE))]
         /\ input' = [input EXCEPT ![p] = <<>>]
         /\ sends' = [sends EXCEPT ![p] = Append(@, input[p])]
         /\ last' = "enter_send"
         /\ UNCHANGED <<status, peer_names, my_name, arrivals, announced>>
    ELSE /\ bcast' = <<>>
         /\ last' = "enter_empty"
         /\ UNCHANGED <<status, messages, input, sends, peer_names, my_name,
                        arrivals, announced>>

\* KeyCode::Char(c)
KeyChar(p, c) ==
    /\ Len(input[p]) < MaxInput
    /\ input' = [input EXCEPT ![p] = Append(@, c)]
    /\ bcast' = <<>>
    /\ last' = "char"
    /\ UNCHANGED <<status, messages, sends, peer_names, my_name, arrivals, announced>>

\* KeyCode::Backspace: String::pop
KeyBackspace(p) ==
    /\ input' = [input EXCEPT ![p] = IF @ = <<>> THEN @ ELSE SubSeq(@, 1, Len(@) - 1)]
    /\ bcast' = <<>>
    /\ last' = "backspace"
    /\ UNCHANGED <<status, messages, sends, peer_names, my_name, arrivals, announced>>

\* KeyCode::Esc: break, then the teardown
KeyEsc(p) == LeaveLoop(p, "Terminated", "esc")

\* any other key code, a key event that is no Press, an event that is no key
KeyIgnored(p) ==
    /\ bcast' = <<>>
    /\ last' = "key_ignored"
    /\ UNCHANGED <<status, messages, input, sends, peer_names, my_name,
                   arrivals, announced>>

\* the sleep arm of select! with poll() = Ok(true), read() = Ok(tev)
KeyArm(p, tev) ==
    /\ Running(p)
    /\ IF tev.type = "Key" /\ tev.kind = "Press"
       THEN CASE tev.code = "Enter" -> KeyEnter(p)
              [] tev.code = "Char" -> KeyChar(p, tev.ch)
              [] tev.code = "Backspace" -> KeyBackspace(p)
              [] tev.code = "Esc" -> KeyEsc(p)
              [] OTHER -> KeyIgnored(p)
       ELSE KeyIgnored(p)

\* one loop iteration taking the sleep arm and reading the event tev
KeyStep(p, tev) == KeyArm(p, tev) /\ UNCHANGED <<stego, codec, proc, envVars>>

\* the sleep arm of select! with poll() = Ok(false)
PollIdle(p) ==
    /\ Running(p)
    /\ bcast' = <<>>
    /\ last' = "poll_empty"
    /\ UNCHANGED <<status, messages, input, peer_names, my_name, sends, arrivals, announced>>

\* one loop iteration taking the sleep arm, no terminal event waiting
PollEmpty(p) == PollIdle(p) /\ UNCHANGED <<stego, codec, proc, envVars>>

\* one loop iteration taking the sleep arm, event::poll(..)? or event::read()? = Err
TermFail(p) ==
    /\ Running(p)
    /\ \E w \in {"poll_err", "read_err"} : LeaveLoop(p, "Failed", w)
    /\ UNCHANGED <<stego, codec, proc, envVars>>

\* the heartbeat without its loop: the broadcast is made as a session starts
\* and never again
HeartbeatTurnAtStart(p, ok) ==
    /\ status[p] \in {"Running", "Terminated", "Failed"}
    /\ last = "start"
    /\ bcast' = Broadcast(p, to_vec(AboutMe(my_name[p])), ok)
    /\ last' = "heartbeat"
    /\ UNCHANGED <<status, messages, input, peer_names, my_name, sends, arrivals, announced>>

\* a turn of a heartbeat task that shares AppState and lists its own name
\* among the peers
HeartbeatTurnRegisters(p, ok) ==
    /\ status[p] \in {"Running", "Terminated", "Failed"}
    /\ bcast' = Broadcast(p, to_vec(AboutMe(my_name[p])), ok)
    /\ peer_names' = [peer_names EXCEPT ![p] = Insert(@, p, my_name[p])]
    /\ last' = "heartbeat"
    /\ UNCHANGED <<status, messages, input, my_name, sends, arrivals, announced>>

\* one turn of the spawned heartbeat task: broadcast AboutMe, result discarded.
\* The task is never aborted: it lives until the process ends.
HeartbeatTurn(p, ok) ==
    /\ status[p] \in {"Running", "Terminated", "Failed"}
    /\ bcast' = Broadcast(p, to_vec(AboutMe(my_name[p])), ok)
    /\ last' = "heartbeat"
    /\ UNCHANGED <<status, messages, input, peer_names, my_name, sends, arrivals, announced>>

\* a turn of the heartbeat task, interleaved with the loop's iterations
Heartbeat(p) ==
    /\ \E ok \in BOOLEAN : HeartbeatTurn(p, ok)
    /\ UNCHANGED <<stego, codec, proc, envVars>>

\* run_tui has returned: main() ends (router.shutdown() after Ok, `?` after Err)
MainReturn(p) ==
    /\ proc.pc = "run_tui"
    /\ status[p] \in {"Terminated", "Failed"}
    /\ status' = [status EXCEPT ![p] = "Exited"]
    /\ \E down \in BOOLEAN :
         proc' = [proc EXCEPT
                    !.pc = IF status[p] = "Terminated" /\ down THEN "exit_ok" ELSE "exit_err",
                    !.err = IF status[p] = "Failed" THEN "run_tui"
                            ELSE IF down THEN "none" ELSE "shutdown"]
    /\ bcast' = <<>>
    /\ last' = "exit"
    /\ UNCHANGED <<messages, input, peer_names, my_name, sends, arrivals, announced>>
    /\ UNCHANGED <<stego, codec, envVars>>

\* main() inside run_tui, as the session starts from
ProcInSession == [ProcOff EXCEPT !.pc = "run_tui", !.cmd = "Host", !.name = Ghost,
                                 !.cover = HelloWorld]

\* the state run_tui's loop starts in, for the local node
Init ==
    /\ stego = StegoOff
    /\ codec = CodecOff
    /\ proc = ProcInSession
    /\ status = [p \in NodeId |-> IF p \in Local THEN "Running" ELSE "NotStarted"]
    /\ messages = [p \in NodeId |-> <<>>]
    /\ input = [p \in NodeId |-> <<>>]
    /\ peer_names = [p \in NodeId |-> <<>>]
    /\ my_name = [p \in NodeId |-> IF p \in Local THEN Ghost ELSE <<>>]
    /\ bcast = <<>>
    /\ sends = [p \in NodeId |-> <<>>]
    /\ arrivals = [p \in NodeId |-> <<>>]
    /\ announced = [p \in NodeId |-> <<>>]
    /\ last = "start"
    /\ EnvOff

Next ==
    \E p \in Local :
        \/ DrawFail(p)
        \/ \E ev \in NetEvents : NetStep(p, ev)
        \/ \E tev \in TermEvents : KeyStep(p, tev)
        \/ PollEmpty(p)
        \/ TermFail(p)
        \/ Heartbeat(p)
        \/ MainReturn(p)

Spec == Init /\ [][Next]_vars

-----------------------------------------------------------------------------
(* main(): the host and join entries, up to the call of run_tui *)

TicketNone == [topic |-> Rep(0, TopicLen), nodes |-> <<>>]
TicketOne == [topic |-> [i \in 1..TopicLen |-> (37 * i) % 256], nodes |-> <<NodeB>>]

\* what a user may pass as --ticket, made from the string s a host printed for
\* a ticket: the envelope, the envelope inside other text, the bare string, the
\* bare string with blanks around it, with bytes after it, the envelope without
\* its ']', the string cut short, padded with '=', and text that is no ticket
JoinArgsOf(s) ==
    { hide(<<>>, s),
      <<"s", "e", "e", " ">> \o hide(<<>>, s) \o <<" ", "o", "k">>,
      s,
      <<" ">> \o s \o <<"\n">>,
      s \o <<"A", "A", "A", "A">>,
      GhostPrefix \o s,
      SubSeq(s, 1, Len(s) - 3),
      s \o <<"=">> }

JoinArgs ==
    JoinArgsOf(TicketToString(TicketNone)) \cup JoinArgsOf(TicketToString(TicketOne))
    \cup {NotATicket, <<>>, hide(HelloWorld, NotATicket)}

LocalNames == {Ghost, Bob}

InitMain ==
    /\ stego = StegoOff
    /\ codec = CodecOff
    /\ proc \in {[ProcOff EXCEPT !.pc = "start", !.cmd = "Host", !.name = n, !.cover = c] :
                    n \in LocalNames, c \in Covers}
              \cup {[ProcOff EXCEPT !.pc = "start", !.cmd = "Join", !.name = n, !.arg = a] :
                    n \in LocalNames, a \in JoinArgs}
    /\ SessionOff

\* Endpoint bind, Gossip spawn, Router spawn: each `.await?`
MainBind ==
    /\ proc.pc = "start"
    /\ \E ok \in BOOLEAN :
         proc' = IF ok THEN [proc EXCEPT !.pc = "bound"]
                 ELSE [proc EXCEPT !.pc = "exit_err", !.err = "bind"]
    /\ UNCHANGED <<stego, codec, sessionVars, envVars>>

\* me.direct_addresses with 127.0.0.1:port added for every port in it
WithLoopback(me) ==
    [me EXCEPT !.direct_addresses =
        @ \cup {[ip |-> Loopback, port |-> a.port] : a \in me.direct_addresses}]

\* Commands::Host up to the prompt: the ticket of a random topic and of this
\* node's address, printed inside the envelope
HostTicket ==
    /\ proc.pc = "bound" /\ proc.cmd = "Host"
    /\ \/ proc' = [proc EXCEPT !.pc = "exit_err", !.err = "node_addr"]
       \/ \E tp \in Topics, me \in NodeAddrs :
            LET ticket == [topic |-> tp, nodes |-> <<WithLoopback(me)>>]
            IN  proc' = [proc EXCEPT !.pc = "host_wait", !.ticket = ticket,
                            !.printed = hide(proc.cover, TicketToString(ticket))]
    /\ UNCHANGED <<stego, codec, sessionVars, envVars>>

\* run_tui up to its loop: raw mode, alternate screen, Terminal::new (each `?`),
\* then AppState and the heartbeat task
EnterRunTui(p, ok) ==
    IF ok
    THEN /\ proc' = [proc EXCEPT !.pc = "run_tui"]
         /\ StartSession(p, proc.name)
    ELSE /\ proc' = [proc EXCEPT !.pc = "exit_err", !.err = "terminal"]
         /\ UNCHANGED sessionVars

\* Commands::Host after ENTER: read_line, subscribe, run_tui
HostEnter(p) ==
    /\ proc.pc = "host_wait"
    /\ \/ /\ proc' = [proc EXCEPT !.pc = "exit_err", !.err = "subscribe"]
          /\ UNCHANGED sessionVars
       \/ \E ok \in BOOLEAN : EnterRunTui(p, ok)
    /\ UNCHANGED <<stego, codec, envVars>>

\* Commands::Join with Ticket::from_str(..).expect("Invalid Ticket")
JoinDecodeExpect ==
    /\ proc.pc = "bound" /\ proc.cmd = "Join"
    /\ \E r \in {reveal(proc.arg)} :
       \E decoded \in {IF r.tag = "Ok" THEN r.val ELSE proc.arg} :
       \E t \in {TicketFromStr(decoded)} :
           IF r.tag = "Panic" \/ ~t.ok
           THEN proc' = [proc EXCEPT !.pc = "panic", !.decoded = decoded]
           ELSE proc' = [proc EXCEPT !.pc = "connecting", !.decoded = decoded,
                                     !.ticket = t.val]
    /\ UNCHANGED <<stego, codec, sessionVars, envVars>>

\* Commands::Join up to "Connecting...": reveal, Ticket::from_str(..)
\* .context("Invalid Ticket")?, add_node_addr(addr)? for every node
JoinDecode ==
    /\ proc.pc = "bound" /\ proc.cmd = "Join"
    /\ \E r \in {reveal(proc.arg)} :
       \E decoded \in {IF r.tag = "Ok" THEN r.val ELSE proc.arg} :
       \E t \in {TicketFromStr(decoded)} :
           IF r.tag = "Panic"
           THEN proc' = [proc EXCEPT !.pc = "panic"]
           ELSE IF ~t.ok
           THEN proc' = [proc EXCEPT !.pc = "exit_err", !.err = "Invalid Ticket",
                                     !.decoded = decoded]
           ELSE \/ proc' = [proc EXCEPT !.pc = "connecting", !.decoded = decoded,
                                        !.ticket = t.val]
                \/ /\ t.val.nodes # <<>>
                   /\ proc' = [proc EXCEPT !.pc = "exit_err", !.err = "add_node_addr",
                                           !.decoded = decoded, !.ticket = t.val]
    /\ UNCHANGED <<stego, codec, sessionVars, envVars>>

\* subscribe_and_join under the 30 s timeout, then run_tui
JoinConnect(p) ==
    /\ proc.pc = "connecting"
    /\ \/ /\ proc' = [proc EXCEPT !.pc = "exit_ok", !.err = "timeout"]
          /\ UNCHANGED sessionVars
       \/ /\ proc' = [proc EXCEPT !.pc = "exit_err", !.err = "join"]
          /\ UNCHANGED sessionVars
       \/ \E ok \in BOOLEAN : EnterRunTui(p, ok)
    /\ UNCHANGED <<stego, codec, envVars>>

EscPress == Key("Press", "Esc", "")
EnterPress == Key("Press", "Enter", "")

\* main() with the session reduced to the ways it ends
NextMain ==
    \/ MainBind
    \/ HostTicket
    \/ JoinDecode
    \/ \E p \in Local :
        \/ HostEnter(p)
        \/ JoinConnect(p)
        \/ KeyStep(p, EscPress)
        \/ DrawFail(p)
        \/ MainReturn(p)

SpecMain == InitMain /\ [][NextMain]_vars

-----------------------------------------------------------------------------
(* ui(): the chat pane of the frame, as rows of text *)

\* the line ui builds for one message: own messages right-aligned without a
\* sender, the others left-aligned under the sender's name; both end in the time
ChatLine(msg) ==
    IF msg.is_me
    THEN [align |-> "Right", spans |-> <<msg.text, <<" ", " ", "[">> \o msg.time \o <<"]">> >>]
    ELSE [align |-> "Left",
          spans |-> <<msg.sender, <<":", " ">>, msg.text,
                      <<" ", " ", "[">> \o msg.time \o <<"]">> >>]

\* the skip with no scrolling at all
SkipNone(message_count, available_height) == 0

\* the skip taken one message too far once the pane is full (>= for >)
SkipOneMore(message_count, available_height) ==
    IF message_count >= available_height /\ message_count > 0
    THEN message_count - available_height + 1
    ELSE 0

\* let skip = if message_count > available_height { .. } else { 0 }
Skip(message_count, available_height) ==
    IF message_count > available_height THEN message_count - available_height ELSE 0

\* chat_lines: one line per message after the skip; `of` is the position in
\* messages of the message the line shows
chat_lines(msgs, available_height) ==
    LET skip == Skip(Len(msgs), available_height)
        left == IF skip > Len(msgs) THEN 0 ELSE Len(msgs) - skip
    IN  [i \in 1..left |-> [of |-> skip + i, line |-> ChatLine(msgs[skip + i])]]

\* Paragraph::new(chat_lines) rendered into the pane, no wrap, no scroll, no
\* vertical padding: the first available_height lines, one row each
ui(msgs, available_height) ==
    LET lines == chat_lines(msgs, available_height)
    IN  SubSeq(lines, 1, IF Len(lines) < available_height THEN Len(lines)
                         ELSE available_height)

\* messages a transcript of the driver is made of
ShownMessages ==
    {ChatMessage(Ghost, Hi, t, TRUE) : t \in Times}
    \cup {ChatMessage(Bob, Hi, t, FALSE) : t \in Times}
    \cup {ChatMessage(Unknown, <<"h">>, t, FALSE) : t \in Times}

RECURSIVE SeqsUpTo(_, _)
SeqsUpTo(S0, n) ==
    IF n = 0 THEN {<<>>}
    ELSE LET shorter == SeqsUpTo(S0, n - 1)
         IN  shorter \cup {Append(q, x) : q \in {r \in shorter : Len(r) = n - 1}, x \in S0}

InitUi ==
    /\ stego = StegoOff
    /\ codec = CodecOff
    /\ proc = ProcOff
    /\ status = [p \in NodeId |-> "NotStarted"]
    /\ messages = [p \in NodeId |-> <<>>]
    /\ input = [p \in NodeId |-> <<>>]
    /\ peer_names = [p \in NodeId |-> <<>>]
    /\ my_name = [p \in NodeId |-> <<>>]
    /\ bcast = <<>>
    /\ sends = [p \in NodeId |-> <<>>]
    /\ arrivals = [p \in NodeId |-> <<>>]
    /\ announced = [p \in NodeId |-> <<>>]
    /\ last = "init"
    /\ wire = WireOff
    /\ keys = [p \in NodeId |-> <<>>]
    /\ src = "off"
    /\ \E ms \in SeqsUpTo(ShownMessages, MaxShown), h \in 0..MaxHeight :
         frame = [pc |-> "state", messages |-> ms, height |-> h, lines |-> <<>>]

\* terminal.draw(|f| ui(f, &state)) on a pane of frame.height rows
UiDraw ==
    /\ frame.pc = "state"
    /\ frame' = [frame EXCEPT !.pc = "drawn", !.lines = ui(frame.messages, frame.height)]
    /\ UNCHANGED <<stego, codec, proc, sessionVars, wire, keys, src>>

\* the terminal is resized: the next draw has another height
UiResize ==
    /\ frame.pc = "drawn"
    /\ \E h \in 0..MaxHeight :
         frame' = [frame EXCEPT !.pc = "state", !.height = h, !.lines = <<>>]
    /\ UNCHANGED <<stego, codec, proc, sessionVars, wire, keys, src>>

NextUi == UiDraw \/ UiResize

SpecUi == InitUi /\ [][NextUi]_vars

-----------------------------------------------------------------------------
(* Two participants on one topic: each runs run_tui; the gossip transport    *)
(* carries a broadcast to the other participant once that one has            *)
(* subscribed, and may lose it.                                              *)

Pair == {"A", "B"}

PeerOf(p) == IF p = "A" THEN "B" ELSE "A"

InitPair ==
    /\ stego = StegoOff
    /\ codec = CodecOff
    /\ proc = ProcOff
    /\ SessionOff

\* p subscribes and enters run_tui under its --name
PairJoin(p) ==
    /\ status[p] = "NotStarted"
    /\ \E name \in LocalNames : StartSession(p, name)
    /\ UNCHANGED <<stego, codec, proc, envVars>>

\* what the transport does with a broadcast of p: on its way to the peer if
\* the broadcast succeeded and the peer is subscribed, lost otherwise (noted
\* in dropped when it was sent before the peer had joined)
Carry(p, payload, ok) ==
    IF ok /\ status[PeerOf(p)] = "Running"
    THEN [wire EXCEPT !.flight = @ \cup {[to |-> PeerOf(p), from |-> p,
                                          payload |-> payload]}]
    ELSE IF status[PeerOf(p)] = "NotStarted"
    THEN [wire EXCEPT !.dropped = @ \cup {p}]
    ELSE wire

\* a turn of p's heartbeat task, its broadcast handed to the transport
PairBeat(p, ok) ==
    /\ HeartbeatTurn(p, ok)
    /\ wire' = Carry(p, bcast'[1].payload, bcast'[1].ok)
    /\ UNCHANGED <<stego, codec, proc, frame, keys, src>>

\* the transport loses a message
PairLose ==
    /\ \E m \in wire.flight : wire' = [wire EXCEPT !.flight = @ \ {m}]
    /\ UNCHANGED <<stego, codec, proc, sessionVars, frame, keys, src>>

\* p's loop takes the network arm with a message the transport delivers
PairRecv(p) ==
    /\ \E m \in wire.flight :
         /\ m.to = p
         /\ NetArm(p, Received(m.from, m.payload))
         /\ wire' = [wire EXCEPT !.flight = @ \ {m}]
    /\ UNCHANGED <<stego, codec, proc, frame, keys, src>>

\* p's loop is left: Esc, or an Err of the terminal
PairLeave(p) ==
    /\ Running(p)
    /\ \/ KeyArm(p, EscPress)
       \/ LeaveLoop(p, "Failed", "draw_err")
    /\ UNCHANGED <<stego, codec, proc, envVars>>

\* p's process ends after run_tui returned: its heartbeat task ends with it
PairExit(p) ==
    /\ status[p] \in {"Terminated", "Failed"}
    /\ status' = [status EXCEPT ![p] = "Exited"]
    /\ bcast' = <<>>
    /\ last' = "exit"
    /\ UNCHANGED <<messages, input, peer_names, my_name, sends, arrivals, announced>>
    /\ UNCHANGED <<stego, codec, proc, envVars>>

NextPair ==
    \/ \E p \in Pair :
         \/ PairJoin(p)
         \/ \E ok \in BOOLEAN : PairBeat(p, ok)
         \/ PairRecv(p)
         \/ PairLeave(p)
         \/ PairExit(p)
    \/ PairLose

\* the heartbeat task's timer fires again and again and the transport takes
\* its broadcast; a message delivered again and again is taken by the loop's
\* network arm (the fair transport and the fair scheduling of both tasks)
FairPair ==
    \A p \in Pair :
        /\ WF_vars(PairBeat(p, TRUE))
        /\ SF_vars(PairRecv(p))

SpecPair == InitPair /\ [][NextPair]_vars /\ FairPair

-----------------------------------------------------------------------------
(* The loop with its two event sources: the terminal's queue of key events   *)
(* and the gossip receiver.  select! polls receiver.next() and a sleep of    *)
(* 10 ms created anew in every iteration: the network arm is taken whenever  *)
(* the receiver has something to yield before the sleep ends, the sleep arm  *)
(* (and with it event::poll) only otherwise.                                 *)

\* what the network source does for the whole run: nothing, an event ready at
\* every poll, or end of stream at every poll
SrcModes == {"idle", "busy", "ended"}

\* what receiver.next() yields when polled
SrcEvents ==
    IF src = "busy"
    THEN {Received("B", to_vec(AboutMe(Bob))), Received("B", to_vec(Chat(Hi))),
          Other("NeighborUp")}
    ELSE IF src = "ended" THEN {Other("EndOfStream")}
    ELSE {}

\* receiver.next() is Ready before the 10 ms sleep is
ReceiverReady == src \in {"busy", "ended"}

\* keys the user presses
PressedKeys == {EscPress, EnterPress, Key("Press", "Char", "h")}

InitKeys ==
    /\ stego = StegoOff
    /\ codec = CodecOff
    /\ proc = ProcInSession
    /\ status = [p \in NodeId |-> IF p \in Local THEN "Running" ELSE "NotStarted"]
    /\ messages = [p \in NodeId |-> <<>>]
    /\ input = [p \in NodeId |-> <<>>]
    /\ peer_names = [p \in NodeId |-> <<>>]
    /\ my_name = [p \in NodeId |-> IF p \in Local THEN Ghost ELSE <<>>]
    /\ bcast = <<>>
    /\ sends = [p \in NodeId |-> <<>>]
    /\ arrivals = [p \in NodeId |-> <<>>]
    /\ announced = [p \in NodeId |-> <<>>]
    /\ last = "start"
    /\ frame = FrameOff
    /\ wire = WireOff
    /\ keys = [p \in NodeId |-> <<>>]
    /\ src \in SrcModes

\* terminal.draw(|f| ui(f, &state)) at the head of an iteration: the frame of
\* the state the iteration starts in; pc tells one draw from the next
Draw(p) ==
    frame' = [pc |-> IF frame.pc = "drawn" THEN "redrawn" ELSE "drawn",
              messages |-> messages[p],
              height |-> MaxHeight,
              lines |-> ui(messages[p], MaxHeight)]

\* how many of the pending key events of p have this key code
Pending(p, code) == Cardinality({i \in 1..Len(keys[p]) : keys[p][i].code = code})

\* the user presses a key: the terminal holds it until event::read takes it
\* (a key is pressed only if the bounded input and transcript of the model
\* have room for what the pending keys will do)
KeyPressed(p) ==
    /\ Running(p)
    /\ Len(keys[p]) < MaxKeys
    /\ \E tev \in PressedKeys :
         /\ tev.code = "Char" => Len(input[p]) + Pending(p, "Char") < MaxInput
         /\ tev.code = "Enter" => Len(messages[p]) + Pending(p, "Enter") < MaxMsgs
         /\ keys' = [keys EXCEPT ![p] = Append(@, tev)]
    /\ UNCHANGED <<stego, codec, proc, sessionVars, frame, wire, src>>

\* an iteration in which the receiver is ready first: the network arm
LoopNet(p) ==
    /\ ReceiverReady
    /\ Draw(p)
    /\ \E ev \in SrcEvents : NetArm(p, ev)
    /\ UNCHANGED <<stego, codec, proc, wire, keys, src>>

\* an iteration in which the sleep ends first and a key event is waiting:
\* event::poll = Ok(true), event::read takes the oldest
LoopKey(p) ==
    /\ ~ReceiverReady
    /\ keys[p] # <<>>
    /\ Draw(p)
    /\ KeyArm(p, Head(keys[p]))
    /\ keys' = [keys EXCEPT ![p] = Tail(@)]
    /\ UNCHANGED <<stego, codec, proc, wire, src>>

\* an iteration in which the sleep ends first and no key event is waiting
LoopPoll(p) ==
    /\ ~ReceiverReady
    /\ keys[p] = <<>>
    /\ Draw(p)
    /\ PollIdle(p)
    /\ UNCHANGED <<stego, codec, proc, wire, keys, src>>

\* an iteration ended by `?`: terminal.draw, event::poll or event::read = Err
LoopFail(p) ==
    /\ Running(p)
    /\ \E w \in {"draw_err", "poll_err", "read_err"} :
         /\ w = "draw_err" \/ ~ReceiverReady
         /\ w = "read_err" => keys[p] # <<>>
         /\ LeaveLoop(p, "Failed", w)
    /\ UNCHANGED <<stego, codec, proc, envVars>>

LoopIter(p) == LoopNet(p) \/ LoopKey(p) \/ LoopPoll(p)

NextKeys ==
    \E p \in Local :
        \/ KeyPressed(p)
        \/ LoopNet(p)
        \/ LoopKey(p)
        \/ LoopPoll(p)
        \/ LoopFail(p)

\* the loop's task is scheduled: it keeps iterating while it can
FairKeys == \A p \in Local : WF_vars(LoopIter(p))

SpecKeys == InitKeys /\ [][NextKeys]_vars /\ FairKeys

-----------------------------------------------------------------------------
(* Claims about the codec *)

Chars(s) == {s[i] : i \in 1..Len(s)}

\* text holds a "[Ghost:" with a ']' somewhere after it (1-based position j)
HasSpan(text) ==
    \E i \in 0..Len(text), j \in 1..Len(text) :
        /\ OccursAt(text, GhostPrefix, i)
        /\ j > i + PrefixLen
        /\ text[j] = "]"

\* C1: for every s without ']' and every cover (the empty one too),
\* reveal(hide(cover, s)) is Ok(s), s exactly
C1_RevealInvertsHide ==
    (stego.pc = "revealed" /\ "]" \notin Chars(stego.arg))
        => stego.out = [tag |-> "Ok", val |-> stego.arg]

\* reached: a secret that itself holds "[Ghost:" and a blank, wrapped under the
\* empty cover and revealed
C1_Witness ==
    /\ stego.pc = "revealed"
    /\ stego.cover = <<>>
    /\ stego.arg = GhostPrefix \o <<" ", "a">>
    /\ stego.out.val = stego.arg

\* C3: reveal never panics and never fails; on a text with no "[Ghost:", or with
\* one and no ']' after it, the result is the trimmed text
C3_RevealFallback ==
    stego.pc \in {"revealed", "revealedRaw"} =>
        /\ stego.out.tag = "Ok"
        /\ ~HasSpan(stego.text) => stego.out.val = Trim(stego.text)

\* reached: a pasted text with a ']' before the prefix and none after it, and a
\* blank to trim
C3_Witness ==
    /\ stego.pc = "revealedRaw"
    /\ stego.text = <<"]">> \o GhostPrefix \o <<" ">>
    /\ stego.out = [tag |-> "Ok", val |-> <<"]">> \o GhostPrefix]

\* C2: decoding the string an encoded Ticket gives succeeds and yields the same
\* topic and the same node list in the same order
C2_TicketRoundTrip ==
    codec.pc = "decoded" =>
        /\ codec.out.ok
        /\ codec.out.val.topic = codec.ticket.topic
        /\ codec.out.val.nodes = codec.ticket.nodes

\* reached: a ticket of two different nodes encoded and decoded
C2_Witness ==
    /\ codec.pc = "decoded"
    /\ codec.out.ok
    /\ codec.ticket.nodes = <<NodeB, NodeA>>
    /\ codec.out.val.nodes = <<NodeB, NodeA>>

\* reached: a ticket with no node encoded and decoded
C2_WitnessEmpty ==
    /\ codec.pc = "decoded"
    /\ codec.out.ok
    /\ codec.ticket.nodes = <<>>

-----------------------------------------------------------------------------
(* Claims about main() *)

\* the --ticket argument, unwrapped by reveal, parses as a Ticket
DecodesToTicket(arg) ==
    LET r == reveal(arg) IN r.tag = "Ok" /\ TicketFromStr(r.val).ok

\* C4: in join mode a ticket string that does not decode ends main() with the
\* error "Invalid Ticket" (a value, no panic): no connection is attempted,
\* run_tui is never entered and no session exists
C4_BadTicketEndsJoin ==
    (proc.cmd = "Join" /\ ~DecodesToTicket(proc.arg)) =>
        /\ proc.pc \in {"start", "bound", "exit_err"}
        /\ proc.pc = "exit_err" => proc.err \in {"bind", "Invalid Ticket"}
        /\ \A p \in NodeId : status[p] = "NotStarted"

\* reached: "not a ticket", which reveal gave back unchanged, refused
C4_Witness ==
    /\ proc.cmd = "Join"
    /\ proc.arg = NotATicket
    /\ proc.decoded = NotATicket
    /\ proc.pc = "exit_err"
    /\ proc.err = "Invalid Ticket"
    /\ status["A"] = "NotStarted"

-----------------------------------------------------------------------------
(* Claims about the session *)

IsOwn(m) == m.is_me
IsRemote(m) == ~m.is_me

\* the (sender, text) pairs of a sequence of transcript entries
Shown(ms) == [i \in 1..Len(ms) |-> [sender |-> ms[i].sender, text |-> ms[i].text]]

\* C5: a Presence{name} from a peer already mapped to that name leaves
\* peer_names as it was, the peer's one entry still holding name
C5_PresenceIdempotent ==
    [][\A p \in Local, f \in RemoteIds, n \in PeerNames :
         ( /\ f \in DOMAIN peer_names[p]
           /\ peer_names[p][f] = n
           /\ NetStep(p, Received(f, to_vec(AboutMe(n)))) )
         => /\ peer_names'[p] = peer_names[p]
            /\ f \in DOMAIN peer_names'[p]
            /\ peer_names'[p][f] = n]_vars

\* reached: B's Presence{bob} processed again with B already known as bob
C5_Witness ==
    /\ last = "presence_same"
    /\ Running("A")
    /\ DOMAIN peer_names["A"] = {"B"}
    /\ peer_names["A"]["B"] = Bob

\* C6: while the session runs, peer_names maps exactly the peers a Presence
\* was processed from, each to the name of its latest Presence, and no step
\* of the running session removes an entry
C6_PeerNamesLastWriteWins ==
    /\ [](\A p \in Local : Running(p) =>
            /\ DOMAIN peer_names[p] = DOMAIN announced[p]
            /\ \A f \in DOMAIN peer_names[p] : peer_names[p][f] = announced[p][f])
    /\ [][\A p \in Local : (Running(p) /\ status'[p] = "Running") =>
            DOMAIN peer_names[p] \subseteq DOMAIN peer_names'[p]]_vars

\* reached: B chatted while known as bob, then announced eve; C is known too
C6_Witness ==
    /\ Running("A")
    /\ \E i \in 1..Len(arrivals["A"]) :
          arrivals["A"][i].from = "B" /\ arrivals["A"][i].name = Bob
    /\ DOMAIN peer_names["A"] = {"B", "C"}
    /\ peer_names["A"]["B"] = Eve

C7_WitnessMixed ==
    /\ Running("A")
    /\ Len(arrivals["A"]) = 1
    /\ Len(sends["A"]) = 1
    /\ messages["A"][2].is_me

\* C8: a Chat from a peer whose Presence was processed appends exactly one
\* entry: the latest announced name, the text, own-flag false; after one
\* Presence and one Chat "hi" from B the transcript is that one entry
C8_ChatUnderAnnouncedName ==
    /\ [][\A p \in Local, f \in RemoteIds, c \in ChatPayloads :
            (f \in DOMAIN announced[p] /\ NetStep(p, Received(f, c))) =>
                \E tm \in Times :
                    messages'[p] = Append(messages[p],
                                          ChatMessage(announced[p][f], Hi, tm, FALSE))]_vars
    /\ [](\A p \in Local :
            (sends[p] = <<>> /\ arrivals[p] = <<[from |-> "B", text |-> Hi, name |-> Bob]>>)
                => \E tm \in Times : messages[p] = <<ChatMessage(Bob, Hi, tm, FALSE)>>)

\* reached: the scenario's end: B known as bob, its one Chat just processed
C8_Witness ==
    /\ last = "chat"
    /\ Running("A")
    /\ peer_names["A"] = [f \in {"B"} |-> Bob]
    /\ arrivals["A"] = <<[from |-> "B", text |-> Hi, name |-> Bob]>>
    /\ Len(messages["A"]) = 1
    /\ messages["A"][1].sender = Bob
    /\ ~messages["A"][1].is_me

\* deliveries of the model whose payload is no Wire Message
MalformedEvents == {ev \in NetEvents : ev.kind = "Received" /\ ev.content \notin GoodPayloads}

\* C9: a delivery whose payload does not deserialize changes none of messages,
\* peer_names, input, my_name, broadcasts nothing and leaves the session Running
\* (stated as: a step that does otherwise is no such delivery's network arm)
C9_MalformedDropped ==
    [][\A p \in Local :
         ~( /\ messages'[p] = messages[p]
            /\ peer_names'[p] = peer_names[p]
            /\ input'[p] = input[p]
            /\ my_name'[p] = my_name[p]
            /\ bcast' = <<>>
            /\ status'[p] = "Running" )
         => \A ev \in MalformedEvents : ~NetStep(p, ev)]_vars

\* reached: a malformed delivery processed in a session that has a transcript,
\* a known peer and typed input to lose
C9_Witness ==
    /\ last = "malformed"
    /\ Running("A")
    /\ messages["A"] # <<>>
    /\ DOMAIN peer_names["A"] # {}
    /\ input["A"] # <<>>

\* the network arm never leaves the loop: a step that ends not Running is no
\* network arm, whatever the receiver yielded
NetworkKeepsRunning ==
    [][\A p \in Local :
         status'[p] # "Running" => \A ev \in NetEvents : ~NetStep(p, ev)]_vars

\* C10: whatever the receiver yields, the session is Running after the network
\* arm; and a step that takes the session out of Running (the session has two
\* states: Running, and Terminated once the loop is left) is the Esc key press
C10_OnlyEscTerminates ==
    /\ NetworkKeepsRunning
    /\ [][\A p \in Local :
            (status[p] = "Running" /\ status'[p] \in {"Terminated", "Failed"})
                => KeyStep(p, EscPress)]_vars

\* reached: end of stream taken by the loop, the session still Running
C10_Witness ==
    /\ last = "end_of_stream"
    /\ Running("A")
    /\ messages["A"] # <<>>

\* reached: the loop left with no Esc pressed, by the error of terminal.draw
C10_LeftWithoutEsc ==
    /\ last = "draw_err"
    /\ status["A"] = "Failed"

-----------------------------------------------------------------------------
(* Claims about failures inside the loop *)

\* the step was a loop iteration of p in which a fallible operation failed:
\* terminal.draw, event::poll, event::read, or the broadcast of an Enter
LoopOpFailed(p) ==
    /\ Running(p)
    /\ \/ last' \in {"draw_err", "poll_err", "read_err"}
       \/ /\ last' = "enter_send"
          /\ bcast' # <<>>
          /\ ~bcast'[1].ok

\* C11: a fallible operation of the loop that fails does nothing this
\* iteration: the session is still Running, and a failure of the terminal
\* leaves messages, input, peer_names and my_name as they were
C11_FailureDoesNothing ==
    [][\A p \in Local :
         LoopOpFailed(p) =>
            /\ status'[p] = "Running"
            /\ last' \in {"draw_err", "poll_err", "read_err"} =>
                  /\ messages'[p] = messages[p]
                  /\ input'[p] = input[p]
                  /\ peer_names'[p] = peer_names[p]
                  /\ my_name'[p] = my_name[p]]_vars

\* reached: event::read failed; run_tui has returned the error and its AppState
\* is gone
C11_ReadErrEndsSession ==
    /\ last = "read_err"
    /\ status["A"] = "Failed"
    /\ messages["A"] = <<>>

\* C12: an Enter whose broadcast fails still appends the own entry with the
\* typed text, clears input, records nothing else and leaves the session
\* Running, as a successful send does
C12_BroadcastFailureSwallowed ==
    [][\A p \in Local :
         ( /\ last' = "enter_send"
           /\ ~bcast'[1].ok
           /\ KeyStep(p, EnterPress) )
         => /\ \E tm \in Times :
                 messages'[p] = Append(messages[p],
                                       ChatMessage(my_name[p], input[p], tm, TRUE))
            /\ input'[p] = <<>>
            /\ status'[p] = "Running"
            /\ peer_names'[p] = peer_names[p]
            /\ my_name'[p] = my_name[p]]_vars

\* reached: a send of "hh" whose broadcast failed, appended after an earlier
\* entry all the same
C12_Witness ==
    /\ last = "enter_send"
    /\ bcast # <<>>
    /\ ~bcast[1].ok
    /\ bcast[1].payload = to_vec(Chat(<<"h", "h">>))
    /\ Running("A")
    /\ input["A"] = <<>>
    /\ Len(messages["A"]) = 2
    /\ messages["A"][2].is_me
    /\ messages["A"][2].text = <<"h", "h">>

-----------------------------------------------------------------------------
(* Claims about the rendered frame *)

Min(a, b) == IF a < b THEN a ELSE b

\* C13: with n messages and a pane of H rows the rendered transcript is the
\* last min(n, H) messages in append order, one row each; with n > H the
\* oldest n - H are on no row
C13_RendersLastRows ==
    frame.pc = "drawn" =>
        LET n == Len(frame.messages)
            H == frame.height
            k == Min(n, H)
        IN  /\ Len(frame.lines) = k
            /\ \A i \in 1..k :
                 /\ frame.lines[i].of = n - k + i
                 /\ frame.lines[i].line = ChatLine(frame.messages[n - k + i])
            /\ n > H => \A i \in 1..k : frame.lines[i].of > n - H

\* reached: three messages drawn into two rows: the second and the third
C13_Witness ==
    /\ frame.pc = "drawn"
    /\ frame.height = 2
    /\ Len(frame.messages) = 3
    /\ frame.messages[1] # frame.messages[2]
    /\ frame.messages[2] # frame.messages[3]
    /\ <<frame.lines[1].of, frame.lines[2].of>> = <<2, 3>>

\* the rows of a frame each show one message, in append order without
\* repetition
RowsInOrder(lines, msgs) ==
    /\ \A i \in 1..Len(lines) :
         /\ lines[i].of \in 1..Len(msgs)
         /\ lines[i].line = ChatLine(msgs[lines[i].of])
    /\ \A i, j \in 1..Len(lines) : i < j => lines[i].of < lines[j].of

-----------------------------------------------------------------------------
(* Claims about the Enter key, the transcript and the heartbeat *)

\* C15: an Enter with non-empty input is one step that makes exactly one
\* broadcast, of a Chat that carries the whole input, appends exactly one
\* entry (that text, my_name, own-flag true) which is then the last of
\* messages, and empties input; an Enter with empty input broadcasts nothing
\* and changes none of status, messages, input, peer_names, my_name
C15_EnterAtomic ==
    [][\A p \in Local :
         ( /\ last' \in {"enter_send", "enter_empty"}
           /\ KeyStep(p, EnterPress) )
         => IF input[p] # <<>>
            THEN /\ Len(bcast') = 1
                 /\ bcast'[1].from = p
                 /\ from_slice(bcast'[1].payload) =
                       [ok |-> TRUE, msg |-> Chat(input[p])]
                 /\ Len(messages'[p]) = Len(messages[p]) + 1
                 /\ SubSeq(messages'[p], 1, Len(messages[p])) = messages[p]
                 /\ \E tm \in Times :
                      messages'[p][Len(messages'[p])] =
                          ChatMessage(my_name[p], input[p], tm, TRUE)
                 /\ input'[p] = <<>>
                 /\ status'[p] = "Running"
            ELSE /\ bcast' = <<>>
                 /\ status'[p] = status[p]
                 /\ messages'[p] = messages[p]
                 /\ input'[p] = input[p]
                 /\ peer_names'[p] = peer_names[p]
                 /\ my_name'[p] = my_name[p]]_vars

\* reached: "hh" sent by Enter after a remote entry: broadcast once, last of
\* the transcript, input empty
C15_Witness ==
    /\ last = "enter_send"
    /\ Running("A")
    /\ Len(bcast) = 1
    /\ bcast[1].ok
    /\ bcast[1].payload = to_vec(Chat(<<"h", "h">>))
    /\ input["A"] = <<>>
    /\ Len(messages["A"]) = 2
    /\ ~messages["A"][1].is_me
    /\ messages["A"][2] \in {ChatMessage(Ghost, <<"h", "h">>, tm, TRUE) : tm \in Times}

\* the i-th remote entry of a transcript
RemoteEntry(ms, i) == SelectSeq(ms, IsRemote)[i]

\* C16: a step of the running session leaves messages as it is or appends one
\* entry, the entries before it untouched; a Chat from a peer not in
\* peer_names is stored under "Unknown", and an entry stored so keeps that
\* name whatever the peer announces later
C16_AppendOnly ==
    /\ [][\A p \in Local :
            (Running(p) /\ status'[p] = "Running") =>
                \/ messages'[p] = messages[p]
                \/ /\ Len(messages'[p]) = Len(messages[p]) + 1
                   /\ SubSeq(messages'[p], 1, Len(messages[p])) = messages[p]]_vars
    /\ [][\A p \in Local, f \in RemoteIds, c \in ChatPayloads :
            (f \notin DOMAIN peer_names[p] /\ NetStep(p, Received(f, c))) =>
                /\ messages'[p] # <<>>
                /\ messages'[p][Len(messages'[p])].sender = Unknown
                /\ ~messages'[p][Len(messages'[p])].is_me]_vars
    /\ [](\A p \in Local :
            /\ Len(SelectSeq(messages[p], IsRemote)) = Len(arrivals[p])
            /\ \A i \in 1..Len(arrivals[p]) :
                 arrivals[p][i].name = <<>> =>
                    RemoteEntry(messages[p], i).sender = Unknown)

\* reached: B's Chat stored while B was unknown, B's Presence processed after
\* it: the entry still says "Unknown" with B now known as bob
C16_Witness ==
    /\ last = "presence"
    /\ Running("A")
    /\ peer_names["A"] = [f \in {"B"} |-> Bob]
    /\ arrivals["A"] = <<[from |-> "B", text |-> Hi, name |-> <<>>]>>
    /\ Len(messages["A"]) = 2
    /\ messages["A"][1].sender = Unknown
    /\ messages["A"][1].text = Hi
    /\ messages["A"][2].is_me

\* some field of p's AppState differs after the step
StateChanged(p) ==
    \/ messages'[p] # messages[p]
    \/ peer_names'[p] # peer_names[p]
    \/ input'[p] # input[p]
    \/ my_name'[p] # my_name[p]

\* C17: a turn of the heartbeat task, wherever it falls between the loop's
\* iterations, changes none of messages, peer_names, input, my_name and makes
\* one broadcast, of AboutMe{my_name}; a step that changes one of them is an
\* iteration of the main loop
C17_HeartbeatTouchesNothing ==
    /\ [][\A p \in Local :
            Heartbeat(p) =>
                /\ ~StateChanged(p)
                /\ Len(bcast') = 1
                /\ bcast'[1].from = p
                /\ from_slice(bcast'[1].payload) =
                      [ok |-> TRUE, msg |-> AboutMe(my_name[p])]]_vars
    /\ [][\A p \in Local :
            StateChanged(p) =>
                \/ \E ev \in NetEvents : NetStep(p, ev)
                \/ \E tev \in TermEvents : KeyStep(p, tev)
                \/ DrawFail(p)
                \/ TermFail(p)]_vars

\* reached: a heartbeat turn in a session with a transcript, a known peer and
\* typed input, all still there
C17_Witness ==
    /\ last = "heartbeat"
    /\ Running("A")
    /\ bcast = Broadcast("A", to_vec(AboutMe(Ghost)), TRUE)
    /\ Len(messages["A"]) = 2
    /\ peer_names["A"] = [f \in {"B"} |-> Eve]
    /\ input["A"] = <<"h">>

-----------------------------------------------------------------------------
(* Claims about two participants *)

\* p's peer_names holds the peer under the peer's own name
Learned(p) ==
    /\ PeerOf(p) \in DOMAIN peer_names[p]
    /\ peer_names[p][PeerOf(p)] = my_name[PeerOf(p)]

BothRunning == Running("A") /\ Running("B")

\* C18: two participants on one topic, whichever joined first: if from some
\* point on both are Running for good, then (the transport being fair)
\* eventually each one's peer_names maps the other to the other's my_name,
\* also when the Presences sent before the other joined were lost
C18_NamesLearned ==
    <>[]BothRunning => <>(Learned("A") /\ Learned("B"))

\* reached: both know each other under different names, though a Presence of
\* the first to join was lost before the other had joined
C18_Witness ==
    /\ BothRunning
    /\ Learned("A") /\ Learned("B")
    /\ my_name["A"] # my_name["B"]
    /\ wire.dropped # {}

-----------------------------------------------------------------------------
(* Claims about the keyboard under network load *)

\* an Esc press waits in the terminal
EscPending(p) == \E i \in 1..Len(keys[p]) : keys[p][i] = EscPress

\* with the network source in mode m: a running session with an Esc pending
\* leaves Running, and a full queue of pending keys gets shorter (its oldest
\* key is consumed) unless the session ends
KeysConsumedIn(m) ==
    \A p \in Local :
        /\ (src = m /\ Running(p) /\ EscPending(p)) ~> ~Running(p)
        /\ (src = m /\ Running(p) /\ Len(keys[p]) = MaxKeys)
              ~> (~Running(p) \/ Len(keys[p]) < MaxKeys)

\* C19: under fair scheduling of the loop a pending Esc ends the running
\* session and a pending key event is consumed, whatever the network source
\* does: idle, delivering continuously, or ended
C19_PendingKeyConsumed ==
    \A m \in SrcModes : KeysConsumedIn(m)

\* with an idle network source the pending keys are consumed
C19_IdleSourceConsumes == KeysConsumedIn("idle")

\* reached: Esc is pending while the loop takes end of stream once more
C19_EscWaitsBehindEndOfStream ==
    /\ src = "ended"
    /\ last = "end_of_stream"
    /\ Running("A")
    /\ keys["A"] = <<EscPress>>
    /\ frame.pc = "redrawn"

-----------------------------------------------------------------------------
(* Claims about the heartbeat's lifetime *)

\* the step is a Presence broadcast of p's heartbeat task
PresenceBroadcast(p) ==
    /\ last' = "heartbeat"
    /\ bcast' # <<>>
    /\ bcast'[1].from = p
    /\ from_slice(bcast'[1].payload) = [ok |-> TRUE, msg |-> AboutMe(my_name[p])]

\* C20: the heartbeat broadcasts AboutMe{my_name} during the session's
\* lifetime only: while the session is Running its next broadcast is always
\* to come, and from a session that has reached Terminated no further
\* Presence is broadcast
C20_HeartbeatWithinLifetime ==
    /\ [](\A p \in Local : Running(p) => ENABLED Heartbeat(p))
    /\ [][\A p \in Local : status[p] = "Terminated" => ~PresenceBroadcast(p)]_vars

\* reached: the session Terminated by Esc, main() not yet returned, and the
\* heartbeat task has just broadcast AboutMe{"Ghost"} once more
C20_BeatAfterTerminated ==
    /\ status["A"] = "Terminated"
    /\ proc.pc = "run_tui"
    /\ last = "heartbeat"
    /\ bcast # <<>>
    /\ bcast[1].payload = to_vec(AboutMe(Ghost))

====
